---- MODULE Spec2Model ----
(***************************************************************************)
(* Model of magnetometer_wrapper: the AbstractDeviceCommunicator of        *)
(* abstract_classes/device_communicator.py (query, the context manager,    *)
(* the framing iterator and the terminator-stripping regular expression)   *)
(* over a transport that can fail, time out and be opened or closed by     *)
(* something else between calls.                                           *)
(*                                                                         *)
(* Strings are sequences of one-character strings.  CR and LF stand for    *)
(* '\r' and '\n'; "$" is the dollar sign, which the regular expression     *)
(* built from the terminator treats as an end-of-string anchor.            *)
(***************************************************************************)
EXTENDS Integers, Sequences, FiniteSets, TLC

CR == "CR"
LF == "LF"
DOLLAR == "$"
EMPTY == ""
EACUTE == "e-acute"
SURROGATE == "lone surrogate"

\* Bounds of the model.
MaxTermLen == 2
MaxStreamLen == 3
MaxReplyLen == 4
MaxSerialCalls == 2

Alphabet == {CR, LF, DOLLAR}

SeqsUpTo(S, n) == UNION {[1..k -> S] : k \in 0..n}

Terminators == SeqsUpTo(Alphabet, MaxTermLen)
Streams == SeqsUpTo(Alphabet, MaxStreamLen)
Replies == SeqsUpTo({"a", CR, LF}, MaxReplyLen)
Messages == {<<>>, <<"a">>}

NoValue == <<"None">>

\* the messages given to SerialCommunicator.write: ASCII, a character of two
\* UTF-8 bytes, and a character that has no UTF-8 encoding
SerialMessages ==
    {<<>>, <<"a">>, <<EACUTE>>, <<"a", EACUTE>>, <<SURROGATE>>,
     <<"a", SURROGATE>>}

\* the termination characters a SerialCommunicator is given
SerialTerminators == {<<CR, LF>>, <<LF>>, <<DOLLAR>>, <<EACUTE>>, <<>>}

\* a serial port object on which no call has been made
NoSerialCalls == [open |-> 0, close |-> 0, write |-> 0, write_args |-> NoValue]

\* the members of the enums of the SerialCommunicator interface
Databits == {"EIGHT", "SEVEN", "SIX", "FIVE"}
StopBits == {"ONE", "ONE_POINT_FIVE", "TWO"}
ParityBits == {"ODD", "EVEN"}

\* the port names a Communicator is constructed with
Ports == {"/dev/ttyUSB0", "COM1"}

\* SerialCommunicator.__init__ called with a port and the default settings
DefaultArgs ==
    [port |-> "/dev/ttyUSB0", data_bits |-> "SEVEN", stop_bits |-> "ONE",
     parity_bits |-> "ODD"]

\* the lookup tables of SerialCommunicator; a constant of the serial library
\* is written as its name
_DATABITS_LOOKUP ==
    ("serial.EIGHTBITS" :> "EIGHT") @@ ("serial.SEVENBITS" :> "SEVEN") @@
    ("serial.SIXBITS" :> "SIX") @@ ("serial.FIVEBITS" :> "FIVE")

_DATABITS_ENUM_LOOKUP ==
    ("EIGHT" :> "serial.EIGHTBITS") @@ ("SEVEN" :> "serial.SEVENBITS") @@
    ("SIX" :> "serial.SIXBITS") @@ ("FIVE" :> "serial.FIVEBITS")

_STOPBITS_LOOKUP ==
    ("serial.STOPBITS_ONE" :> "ONE") @@
    ("serial.STOPBITS_ONE_POINT_FIVE" :> "ONE_POINT_FIVE") @@
    ("serial.STOPBITS_TWO" :> "TWO")

_STOPBITS_ENUM_LOOKUP ==
    ("ONE" :> "serial.STOPBITS_ONE") @@
    ("ONE_POINT_FIVE" :> "serial.STOPBITS_ONE_POINT_FIVE") @@
    ("TWO" :> "serial.STOPBITS_TWO")

\* Mutant of _PARITY_LOOKUP: the two parities are exchanged
ParityLookupExchanged ==
    ("serial.PARITY_EVEN" :> "ODD") @@ ("serial.PARITY_ODD" :> "EVEN")

_PARITY_LOOKUP ==
    ("serial.PARITY_EVEN" :> "EVEN") @@ ("serial.PARITY_ODD" :> "ODD")

_PARITY_ENUM_LOOKUP ==
    ("EVEN" :> "serial.PARITY_EVEN") @@ ("ODD" :> "serial.PARITY_ODD")

\* serial_constructor(port=port, bytesize=..., stopbits=..., parity=...) in
\* SerialCommunicator.__init__: the serial port object, not yet called
serial_constructor(args) ==
    NoSerialCalls @@
    [port |-> args.port,
     bytesize |-> _DATABITS_ENUM_LOOKUP[args.data_bits],
     stopbits |-> _STOPBITS_ENUM_LOOKUP[args.stop_bits],
     parity |-> _PARITY_ENUM_LOOKUP[args.parity_bits]]

\* a communicator whose query has not been called
NoQueries == [query |-> <<>>]

VARIABLES
    _terminator,           \* self._terminator
    portOpen,              \* the transport's open state, read live by is_open
    stream,                \* every character the device sends in the session
    pos,                   \* how many characters of stream have been read
    pc,                    \* position of the caller inside query
    message,               \* argument of the query in progress
    buffer,                \* what write received in the current call
    last_characters_read,  \* the deque of __iter__
    maxlen,                \* maxlen of that deque
    result_string,         \* ''.join of what __iter__ has yielded so far
    timedOut,              \* a read of the current call yielded '' 
    exc_val,               \* exception the with body of query raised, as
                           \* __exit__ receives it
    exc,                   \* exception query raised to the caller
    result,                \* value returned by query
    log,                   \* transport operations of the current call, in
                           \* order; a run of reads is recorded once
    wasOpen,               \* is_open when the current call started
    startPos,              \* pos when the current call started
    _serial,               \* SerialCommunicator._serial: how many times
                           \* each method of the serial port object was
                           \* called, the argument of the last write, and
                           \* the settings the object was constructed with
    _port,                 \* self._port
    init_args,             \* the arguments the constructor was called with
    _communicator          \* LakeShore475._communicator: the messages its
                           \* query was called with, in order

vars == <<_terminator, portOpen, stream, pos, pc, message, buffer,
          last_characters_read, maxlen, result_string, timedOut,
          exc_val, exc, result, log, wasOpen, startPos, _serial, _port,
          init_args, _communicator>>

----------------------------------------------------------------------------
\* Pure helpers

Range(s) == {s[i] : i \in DOMAIN s}

Prefix(s, n) == SubSeq(s, 1, n)
Drop(s, n) == SubSeq(s, n + 1, Len(s))

\* T occurs in s starting at index i (1-based)
OccursAt(T, s, i) ==
    /\ i >= 1
    /\ i + Len(T) - 1 <= Len(s)
    /\ SubSeq(s, i, i + Len(T) - 1) = T

Contains(T, s) == \E i \in 1..(Len(s) + 1) : OccursAt(T, s, i)

\* number of characters of s before the first occurrence of T in s
FirstIndex(T, s) ==
    CHOOSE i \in 0..Len(s) :
        /\ OccursAt(T, s, i + 1)
        /\ \A j \in 0..(i - 1) : ~OccursAt(T, s, j + 1)

SetMax(S) == CHOOSE x \in S : \A y \in S : y <= x

\* a run of reads is one entry of the log
LogAppend(l, op) ==
    IF op = "read" /\ l # <<>> /\ l[Len(l)] = "read" THEN l ELSE Append(l, op)

----------------------------------------------------------------------------
\* The code, as operators

\* Mutant of DequeAppend: the deque has no maxlen
DequeAppendUnbounded(d, n, x) == Append(d, x)

\* Mutant of DequeAppend: an empty read result is not appended
DequeAppendSkipsEmpty(d, n, x) ==
    IF n = 0 \/ x = EMPTY THEN d
    ELSE IF Len(d) < n THEN Append(d, x)
    ELSE Append(Tail(d), x)

\* collections.deque(maxlen=n).append(x)
DequeAppend(d, n, x) ==
    IF n = 0 THEN <<>>
    ELSE IF Len(d) < n THEN Append(d, x)
    ELSE Append(Tail(d), x)

\* ''.join(...) of one more yielded item: an empty read result adds nothing
JoinAppend(s, x) == IF x = EMPTY THEN s ELSE Append(s, x)

\* Mutant of _should_keep_reading: reading stops at the first character
\* equal to the last character of the terminator
KeepReadingUntilLastChar(window, T) ==
    IF T = <<>> THEN FALSE
    ELSE IF window = <<>> THEN TRUE
    ELSE window[Len(window)] # T[Len(T)]

\* Mutant of _should_keep_reading: the terminator is never recognised
KeepReadingAlways(window, T) == TRUE

\* Mutant of _should_keep_reading: a full window counts as the terminator
KeepReadingLengthOnly(window, T) == Len(window) # Len(T)

\* AbstractDeviceCommunicator._should_keep_reading
_should_keep_reading(window, T) == window # T

\* The pattern '$' of re: the end of the string, or just before a newline
\* that is the last character.
AtDollar(s, p) ==
    \/ p = Len(s)
    \/ p = Len(s) - 1 /\ s[Len(s)] = LF

\* The lookahead (?=T$) at offset p of s, T inserted unescaped: "$" is an
\* anchor, every other character of the alphabet a literal.
RECURSIVE LookAhead(_, _, _)
LookAhead(pat, s, p) ==
    IF pat = <<>> THEN AtDollar(s, p)
    ELSE IF Head(pat) = DOLLAR
         THEN AtDollar(s, p) /\ LookAhead(Tail(pat), s, p)
         ELSE /\ p < Len(s)
              /\ s[p + 1] = Head(pat)
              /\ LookAhead(Tail(pat), s, p + 1)

\* AbstractDeviceCommunicator._everything_but_terminator_regex, applied with
\* match(): the prefix lengths at which '^(.|\n)*(?=T$)' can stop.
_everything_but_terminator_regex(T, s) ==
    {p \in 0..Len(s) : LookAhead(T, s, p)}

\* Mutant of _last_read_message_from_device: the terminator is not stripped
ReadMessageUnstripped(T, s) == [raised |-> "none", value |-> s]

\* the messages of the two IOErrors of _last_read_message_from_device
NO_TERMINATOR == "Unable to find termination characters in result"
NO_MATCH == "Unable to find a match for the termination character regular expression"

\* what match() of the compiled pattern returns: None, or a match object
\* whose group(0) is the longest prefix at which the pattern can stop
match(T, s) ==
    LET stops == _everything_but_terminator_regex(T, s)
    IN  IF stops = {} THEN [is_none |-> TRUE, group0 |-> NoValue]
        ELSE [is_none |-> FALSE, group0 |-> Prefix(s, SetMax(stops))]

\* Mutant of bool: a match of the empty string counts as false
MatchOfNothingIsFalse(m) == ~m.is_none /\ m.group0 # <<>>

\* the truth value of what match() returned: None is false, a match object
\* is true whatever it matched
bool(m) == ~m.is_none

\* AbstractDeviceCommunicator._last_read_message_from_device, after the
\* iteration: the three branches on the result of match()
_last_read_message_from_device(T, s) ==
    LET r == match(T, s)
    IN  IF bool(r)
        THEN [raised |-> "none", value |-> r.group0, args |-> "none"]
        ELSE IF ~bool(r) /\ ~r.is_none
        THEN [raised |-> "IOError", value |-> NoValue, args |-> NO_TERMINATOR]
        ELSE [raised |-> "IOError", value |-> NoValue, args |-> NO_MATCH]

\* Mutant of __enter__: the port is opened without looking at is_open
EnterAlwaysOpens(is_open) == <<"is_open", "open">>

\* Mutant of __enter__: the port is never opened
EnterNeverOpens(is_open) == <<"is_open">>

\* AbstractDeviceCommunicator.__enter__: the transport calls it makes
__enter__(is_open) ==
    IF ~is_open THEN <<"is_open", "open">> ELSE <<"is_open">>

\* Mutant of __exit__: the port is closed without looking at is_open
ExitAlwaysCloses(is_open) == <<"is_open", "close">>

\* Mutant of __exit__: the port is never closed
ExitNeverCloses(is_open) == <<"is_open">>

\* AbstractDeviceCommunicator.__exit__: the transport calls it makes
__exit__(is_open) ==
    IF is_open THEN <<"is_open", "close">> ELSE <<"is_open">>

\* str.encode('utf-8', errors='strict') of one character
utf8(c) ==
    CASE c = "a" -> <<97>>
      [] c = CR -> <<13>>
      [] c = LF -> <<10>>
      [] c = DOLLAR -> <<36>>
      [] c = EACUTE -> <<195, 169>>

\* the string has a UTF-8 encoding: a lone surrogate has none
Encodable(s) == \A i \in DOMAIN s : s[i] # SURROGATE

\* str.encode('utf-8') of an encodable string
RECURSIVE encode(_)
encode(s) == IF s = <<>> THEN <<>> ELSE utf8(Head(s)) \o encode(Tail(s))

\* Mutant of _get_data_to_write: the terminator is not appended
DataWithoutTerminator(msg, T) == encode(msg)

\* SerialCommunicator._get_data_to_write
_get_data_to_write(msg, T) == encode(msg \o T)

----------------------------------------------------------------------------
\* The state machine

\* Mutant of is_open: the answer is a flag kept by the Communicator, not
\* asked of the port
IsOpenStored == wasOpen

\* SerialCommunicator.is_open: self._serial.isOpen(), asked of the port at
\* every use
is_open == portOpen

TypeOK ==
    /\ _terminator \in Terminators \cup SerialTerminators
    /\ stream \in Streams \cup Replies
    /\ portOpen \in BOOLEAN
    /\ pos \in 0..Len(stream)
    /\ pc \in {"idle", "write", "iter", "matched", "exit", "returned", "raised",
              "with", "read", "yielded"}
    /\ timedOut \in BOOLEAN
    /\ exc_val \in {"none", "WriteError", "ReadError", "IOError", "BodyError"}
    /\ exc \in {"none", "OpenError", "WriteError", "ReadError", "IOError",
                "CloseError", "UnicodeEncodeError", "BodyError",
                "ValueError", "RuntimeError"}
    /\ _serial.open \in 0..MaxSerialCalls
    /\ _serial.close \in 0..MaxSerialCalls
    /\ _serial.write \in 0..MaxSerialCalls

NoCall ==
    /\ message = NoValue
    /\ buffer = NoValue
    /\ last_characters_read = <<>>
    /\ maxlen = 0
    /\ result_string = <<>>
    /\ timedOut = FALSE
    /\ exc_val = "none"
    /\ exc = "none"
    /\ result = NoValue
    /\ log = <<>>
    /\ wasOpen = FALSE
    /\ startPos = 0

\* AbstractDeviceCommunicator.__init__ with any terminator, over a closed
\* port and a device that will send any stream
Init ==
    /\ _terminator \in Terminators
    /\ stream \in Streams
    /\ portOpen = FALSE
    /\ pos = 0
    /\ pc = "idle"
    /\ init_args = DefaultArgs
    /\ _port = init_args.port
    /\ _serial = serial_constructor(init_args)
    /\ _communicator = NoQueries
    /\ NoCall

\* Mutant of AfterRaise: a failed write or read is tried again
RetryAfterRaise == "write"

\* with self: an exception raised in the block of query is not caught
\* there; control passes to __exit__
AfterRaise == "exit"

\* query(W): __enter__ finds the port open, or opens it
QueryEnter(W) ==
    /\ pc = "idle"
    /\ message' = W
    /\ wasOpen' = is_open
    /\ startPos' = pos
    /\ log' = __enter__(is_open)
    /\ portOpen' = IF "open" \in Range(__enter__(is_open)) THEN TRUE
                   ELSE portOpen
    /\ pc' = "write"
    /\ UNCHANGED <<_port, init_args, _communicator, _serial, _terminator, stream, pos, buffer, last_characters_read,
                   maxlen, result_string, timedOut, exc_val, exc, result>>

\* Mutant of AfterOpenRaise: the exception of open() is passed over and the
\* with body runs
BodyAfterOpenRaise == "write"

\* with self: an exception raised by __enter__ leaves the with statement;
\* neither the block nor __exit__ runs
AfterOpenRaise == "raised"

\* query(W): the open() of __enter__ raises; the with body and __exit__
\* do not run
QueryEnterFails(W) ==
    /\ pc = "idle"
    /\ "open" \in Range(__enter__(is_open))
    /\ message' = W
    /\ wasOpen' = is_open
    /\ startPos' = pos
    /\ log' = __enter__(is_open)
    /\ exc' = "OpenError"
    /\ pc' = AfterOpenRaise
    /\ UNCHANGED <<_port, init_args, _communicator, _serial, _terminator, portOpen, stream, pos, buffer,
                   last_characters_read, maxlen, result_string, timedOut,
                   exc_val, result>>

\* self.write(message), then the generator of __iter__ is set up
Write ==
    /\ pc = "write"
    /\ buffer' = message
    /\ log' = LogAppend(log, "write")
    /\ maxlen' = Len(_terminator)
    /\ last_characters_read' = <<>>
    /\ pc' = "iter"
    /\ UNCHANGED <<_port, init_args, _communicator, _serial, _terminator, portOpen, stream, pos, message,
                   result_string, timedOut, exc_val, exc, result, wasOpen, startPos>>

\* self.write(message) raises
WriteFails ==
    /\ pc = "write"
    /\ log' = LogAppend(log, "write")
    /\ exc_val' = "WriteError"
    /\ pc' = AfterRaise
    /\ UNCHANGED <<_port, init_args, _communicator, _serial, _terminator, portOpen, stream, pos, message, buffer,
                   last_characters_read, maxlen, result_string, timedOut,
                   exc, result, wasOpen, startPos>>

\* one turn of the loop of __iter__ whose read() returns new_char
Yield(new_char) ==
    /\ last_characters_read' =
           DequeAppend(last_characters_read, maxlen, new_char)
    /\ result_string' = JoinAppend(result_string, new_char)
    /\ log' = LogAppend(log, "read")

\* the transport has a character
ReadChar ==
    /\ pc = "iter"
    /\ _should_keep_reading(last_characters_read, _terminator)
    /\ pos < Len(stream)
    /\ Yield(stream[pos + 1])
    /\ pos' = pos + 1
    /\ UNCHANGED <<_port, init_args, _communicator, _serial, _terminator, portOpen, stream, pc, message, buffer,
                   maxlen, timedOut, exc_val, exc, result, wasOpen, startPos>>

\* the transport's read times out: SerialCommunicator.read returns ''
ReadTimeout ==
    /\ pc = "iter"
    /\ _should_keep_reading(last_characters_read, _terminator)
    /\ Yield(EMPTY)
    /\ timedOut' = TRUE
    /\ UNCHANGED <<_port, init_args, _communicator, _serial, _terminator, portOpen, stream, pos, pc, message, buffer,
                   maxlen, exc_val, exc, result, wasOpen, startPos>>

\* read() raises: the generator and the join are abandoned
ReadFails ==
    /\ pc = "iter"
    /\ _should_keep_reading(last_characters_read, _terminator)
    /\ log' = LogAppend(log, "read")
    /\ exc_val' = "ReadError"
    /\ last_characters_read' = <<>>
    /\ maxlen' = 0
    /\ result_string' = <<>>
    /\ pc' = AfterRaise
    /\ UNCHANGED <<_port, init_args, _communicator, _serial, _terminator, portOpen, stream, pos, message, buffer,
                   timedOut, exc, result, wasOpen, startPos>>

\* the while condition of __iter__ is false: the generator is exhausted and
\* ''.join returns result_string
IterStop ==
    /\ pc = "iter"
    /\ ~_should_keep_reading(last_characters_read, _terminator)
    /\ last_characters_read' = <<>>
    /\ maxlen' = 0
    /\ pc' = "matched"
    /\ UNCHANGED <<_port, init_args, _communicator, _serial, _terminator, portOpen, stream, pos, message, buffer,
                   result_string, timedOut, exc_val, exc, result, log, wasOpen,
                   startPos>>

\* the rest of _last_read_message_from_device: the regular expression
Strip ==
    /\ pc = "matched"
    /\ LET r == _last_read_message_from_device(_terminator, result_string)
       IN  /\ exc_val' = r.raised
           /\ result' = r.value
    /\ result_string' = <<>>
    /\ pc' = "exit"
    /\ UNCHANGED <<_port, init_args, _communicator, _serial, _terminator, portOpen, stream, pos, message, buffer,
                   last_characters_read, maxlen, timedOut, exc, log, wasOpen,
                   startPos>>

\* __exit__ at the end of the with block of query: close() is not called,
\* or returns; __exit__ returns None, so an exception of the body goes on
\* to the caller
Exit ==
    /\ pc = "exit"
    /\ log' = log \o __exit__(is_open)
    /\ portOpen' = IF "close" \in Range(__exit__(is_open)) THEN FALSE
                   ELSE portOpen
    /\ exc' = exc_val
    /\ pc' = IF exc_val = "none" THEN "returned" ELSE "raised"
    /\ UNCHANGED <<_port, init_args, _communicator, _serial, _terminator, stream, pos, message, buffer,
                   last_characters_read, maxlen, result_string, timedOut,
                   exc_val, result, wasOpen, startPos>>

\* Mutant of WithRaises: the exception of the block is kept when __exit__
\* raises as well
WithRaisesBodyError(body_exc, exit_exc) ==
    IF body_exc # "none" THEN body_exc ELSE exit_exc

\* what a with statement raises when its block raised body_exc and its
\* __exit__ raised exit_exc ("none": did not raise): the exception of
\* __exit__ replaces the one of the block
WithRaises(body_exc, exit_exc) ==
    IF exit_exc # "none" THEN exit_exc ELSE body_exc

\* the close() of __exit__ raises: the caller gets this exception instead of
\* the return value or the exception of the body; whether the port got
\* closed is not known
ExitCloseFails ==
    /\ pc = "exit"
    /\ "close" \in Range(__exit__(is_open))
    /\ log' = log \o __exit__(is_open)
    /\ portOpen' \in BOOLEAN
    /\ exc' = WithRaises(exc_val, "CloseError")
    /\ result' = NoValue
    /\ pc' = "raised"
    /\ UNCHANGED <<_port, init_args, _communicator, _serial, _terminator, stream, pos, message, buffer,
                   last_characters_read, maxlen, result_string, timedOut,
                   exc_val, wasOpen, startPos>>

\* the caller has the outcome of query and goes on
Return ==
    /\ pc \in {"returned", "raised"}
    /\ pc' = "idle"
    /\ message' = NoValue
    /\ buffer' = NoValue
    /\ last_characters_read' = <<>>
    /\ maxlen' = 0
    /\ result_string' = <<>>
    /\ timedOut' = FALSE
    /\ exc_val' = "none"
    /\ exc' = "none"
    /\ result' = NoValue
    /\ log' = <<>>
    /\ wasOpen' = FALSE
    /\ startPos' = 0
    /\ UNCHANGED <<_port, init_args, _communicator, _serial, _terminator, portOpen, stream, pos>>

\* something other than the Communicator opens or closes the port between
\* calls
ExternalOpen ==
    /\ pc = "idle"
    /\ ~portOpen
    /\ portOpen' = TRUE
    /\ UNCHANGED <<_port, init_args, _communicator, _serial, _terminator, stream, pos, pc, message, buffer,
                   last_characters_read, maxlen, result_string, timedOut,
                   exc_val, exc, result, log, wasOpen, startPos>>

ExternalClose ==
    /\ pc = "idle"
    /\ portOpen
    /\ portOpen' = FALSE
    /\ UNCHANGED <<_port, init_args, _communicator, _serial, _terminator, stream, pos, pc, message, buffer,
                   last_characters_read, maxlen, result_string, timedOut,
                   exc_val, exc, result, log, wasOpen, startPos>>

Next ==
    \/ \E W \in Messages : QueryEnter(W)
    \/ \E W \in Messages : QueryEnterFails(W)
    \/ Write
    \/ WriteFails
    \/ ReadChar
    \/ ReadTimeout
    \/ ReadFails
    \/ IterStop
    \/ Strip
    \/ Exit
    \/ ExitCloseFails
    \/ Return
    \/ ExternalOpen
    \/ ExternalClose

Spec == Init /\ [][Next]_vars

\* A Communicator built with the default terminator '\r\n'
InitCRLF ==
    /\ _terminator = <<CR, LF>>
    /\ stream \in Replies
    /\ portOpen = FALSE
    /\ pos = 0
    /\ pc = "idle"
    /\ init_args = DefaultArgs
    /\ _port = init_args.port
    /\ _serial = serial_constructor(init_args)
    /\ _communicator = NoQueries
    /\ NoCall

SpecCRLF == InitCRLF /\ [][Next]_vars

\* query is synchronous: once called, each of its steps is taken
Step ==
    \/ Write
    \/ ReadChar
    \/ IterStop
    \/ Strip
    \/ Exit

\* The queries whose open, write and close succeed, on a port nothing else
\* touches: what is left to go wrong is the reading
NextRead ==
    \/ \E W \in Messages : QueryEnter(W)
    \/ Write
    \/ ReadChar
    \/ ReadTimeout
    \/ ReadFails
    \/ IterStop
    \/ Strip
    \/ Exit
    \/ Return

FairSpec == Init /\ [][NextRead]_vars /\ WF_vars(Step)

\* Successive messages read from one device stream: queries whose open,
\* write, reads and close do not raise
NextSession ==
    \/ \E W \in Messages : QueryEnter(W)
    \/ Write
    \/ ReadChar
    \/ ReadTimeout
    \/ IterStop
    \/ Strip
    \/ Exit
    \/ Return

SessionSpec == InitCRLF /\ [][NextSession]_vars

\* A sequence of queries, each succeeding or failing in its write or its
\* read step, on a port that nothing else touches and whose open and close
\* do not raise
NextRetry ==
    \/ \E W \in Messages : QueryEnter(W)
    \/ Write
    \/ WriteFails
    \/ ReadChar
    \/ ReadTimeout
    \/ ReadFails
    \/ IterStop
    \/ Strip
    \/ Exit
    \/ Return

RetrySpec == Init /\ [][NextRetry]_vars

\* the setter of termination_characters, between calls: any string is
\* stored as it is
termination_characters(new_terminator) ==
    /\ pc = "idle"
    /\ _terminator' = new_terminator
    /\ UNCHANGED <<_port, init_args, _communicator, _serial, portOpen, stream, pos, pc, message, buffer,
                   last_characters_read, maxlen, result_string, timedOut,
                   exc_val, exc, result, log, wasOpen, startPos>>

\* Queries on a Communicator whose terminator is reconfigured between them
NextConfig ==
    \/ \E new_terminator \in Terminators :
           termination_characters(new_terminator)
    \/ \E W \in Messages : QueryEnter(W)
    \/ Write
    \/ ReadChar
    \/ ReadTimeout
    \/ ReadFails
    \/ IterStop
    \/ Strip
    \/ Exit
    \/ Return

ConfigSpec == InitCRLF /\ [][NextConfig]_vars

----------------------------------------------------------------------------
\* The context manager used by a caller: with communicator: ...

\* with communicator: __enter__ finds the port open, or opens it
WithEnter ==
    /\ pc = "idle"
    /\ wasOpen' = is_open
    /\ log' = __enter__(is_open)
    /\ portOpen' = IF "open" \in Range(__enter__(is_open)) THEN TRUE
                   ELSE portOpen
    /\ pc' = "with"
    /\ UNCHANGED <<_port, init_args, _communicator, _serial, _terminator, stream, pos, message, buffer,
                   last_characters_read, maxlen, result_string, timedOut,
                   exc_val, exc, result, startPos>>

\* with communicator: the open() of __enter__ raises
WithEnterFails ==
    /\ pc = "idle"
    /\ "open" \in Range(__enter__(is_open))
    /\ wasOpen' = is_open
    /\ log' = __enter__(is_open)
    /\ exc' = "OpenError"
    /\ pc' = "raised"
    /\ UNCHANGED <<_port, init_args, _communicator, _serial, _terminator, portOpen, stream, pos, message,
                   buffer, last_characters_read, maxlen, result_string,
                   timedOut, exc_val, result, startPos>>

\* inside the block the port gets closed by something other than __exit__
BodyClose ==
    /\ pc = "with"
    /\ portOpen
    /\ portOpen' = FALSE
    /\ UNCHANGED <<_port, init_args, _communicator, _serial, _terminator, stream, pos, pc, message, buffer,
                   last_characters_read, maxlen, result_string, timedOut,
                   exc_val, exc, result, log, wasOpen, startPos>>

\* inside the block the port gets opened again
BodyOpen ==
    /\ pc = "with"
    /\ ~portOpen
    /\ portOpen' = TRUE
    /\ UNCHANGED <<_port, init_args, _communicator, _serial, _terminator, stream, pos, pc, message, buffer,
                   last_characters_read, maxlen, result_string, timedOut,
                   exc_val, exc, result, log, wasOpen, startPos>>

\* the block ends normally: __exit__ is called with no exception
BodyEnds ==
    /\ pc = "with"
    /\ pc' = "exit"
    /\ UNCHANGED <<_port, init_args, _communicator, _serial, _terminator, portOpen, stream, pos, message,
                   buffer, last_characters_read, maxlen, result_string,
                   timedOut, exc_val, exc, result, log, wasOpen, startPos>>

\* the block raises: __exit__ is called with the exception
BodyRaises ==
    /\ pc = "with"
    /\ exc_val' = "BodyError"
    /\ pc' = "exit"
    /\ UNCHANGED <<_port, init_args, _communicator, _serial, _terminator, portOpen, stream, pos, message,
                   buffer, last_characters_read, maxlen, result_string,
                   timedOut, exc, result, log, wasOpen, startPos>>

NextWith ==
    \/ WithEnter
    \/ WithEnterFails
    \/ BodyClose
    \/ BodyOpen
    \/ BodyEnds
    \/ BodyRaises
    \/ Exit
    \/ ExitCloseFails
    \/ Return
    \/ ExternalOpen
    \/ ExternalClose

WithSpec == Init /\ [][NextWith]_vars

\* Queries and with blocks of callers, on a port that other code opens and
\* closes as well
NextLive ==
    \/ Next
    \/ WithEnter
    \/ WithEnterFails
    \/ BodyClose
    \/ BodyOpen
    \/ BodyEnds
    \/ BodyRaises

LiveSpec == Init /\ [][NextLive]_vars

----------------------------------------------------------------------------
\* SerialCommunicator: open, close and write on the serial port object

\* SerialCommunicator.open: self._serial.open()
open ==
    /\ pc = "idle"
    /\ _serial.open < MaxSerialCalls
    /\ _serial' = [_serial EXCEPT !.open = @ + 1]
    /\ portOpen' = TRUE
    /\ UNCHANGED <<_port, init_args, _communicator, _terminator, stream, pos, pc, message, buffer,
                   last_characters_read, maxlen, result_string, timedOut,
                   exc_val, exc, result, log, wasOpen, startPos>>

\* SerialCommunicator.close: self._serial.close()
close ==
    /\ pc = "idle"
    /\ _serial.close < MaxSerialCalls
    /\ _serial' = [_serial EXCEPT !.close = @ + 1]
    /\ portOpen' = FALSE
    /\ UNCHANGED <<_port, init_args, _communicator, _terminator, stream, pos, pc, message, buffer,
                   last_characters_read, maxlen, result_string, timedOut,
                   exc_val, exc, result, log, wasOpen, startPos>>

\* SerialCommunicator.write(message):
\* self._serial.write(self._get_data_to_write(message))
write(msg) ==
    /\ pc = "idle"
    /\ _serial.write < MaxSerialCalls
    /\ Encodable(msg \o _terminator)
    /\ _serial' = [_serial EXCEPT
                      !.write = @ + 1,
                      !.write_args = _get_data_to_write(msg, _terminator)]
    /\ UNCHANGED <<_port, init_args, _communicator, _terminator, portOpen, stream, pos, pc, message, buffer,
                   last_characters_read, maxlen, result_string, timedOut,
                   exc_val, exc, result, log, wasOpen, startPos>>

\* SerialCommunicator.write(message) when encode raises: the argument of
\* self._serial.write is evaluated first, so the port object is not called
write_raises(msg) ==
    /\ pc = "idle"
    /\ ~Encodable(msg \o _terminator)
    /\ exc' = "UnicodeEncodeError"
    /\ pc' = "raised"
    /\ UNCHANGED <<_port, init_args, _communicator, _serial, _terminator, portOpen, stream, pos, message,
                   buffer, last_characters_read, maxlen, result_string,
                   timedOut, exc_val, result, log, wasOpen, startPos>>

\* A SerialCommunicator built with the default terminator; nothing is read
InitSerial ==
    /\ _terminator = <<CR, LF>>
    /\ stream = <<>>
    /\ portOpen = FALSE
    /\ pos = 0
    /\ pc = "idle"
    /\ init_args = DefaultArgs
    /\ _port = init_args.port
    /\ _serial = serial_constructor(init_args)
    /\ _communicator = NoQueries
    /\ NoCall

NextSerial ==
    \/ open
    \/ close
    \/ \E msg \in SerialMessages : write(msg)
    \/ \E msg \in SerialMessages : write_raises(msg)
    \/ \E new_terminator \in SerialTerminators :
           termination_characters(new_terminator)
    \/ Return

SerialSpec == InitSerial /\ [][NextSerial]_vars

----------------------------------------------------------------------------
\* The attributes port and termination_characters

\* Mutant of port: the getter answers only while the port is open
PortWhileOpen == IF portOpen THEN _port ELSE NoValue

\* AbstractDeviceCommunicator.port (getter)
port == _port

\* Mutant of the termination_characters getter: the default is returned
GetterReturnsDefault == <<CR, LF>>

\* AbstractDeviceCommunicator.termination_characters (getter)
get_termination_characters == _terminator

\* the device streams of the Communicators whose attributes are followed
AttributeStreams == {<<CR, LF>>, <<"a", CR, LF>>}

\* A Communicator built with any port name and the default terminator
InitAttributes ==
    /\ init_args \in {[DefaultArgs EXCEPT !.port = p] : p \in Ports}
    /\ _port = init_args.port
    /\ _serial = serial_constructor(init_args)
    /\ _communicator = NoQueries
    /\ _terminator = <<CR, LF>>
    /\ stream \in AttributeStreams
    /\ portOpen = FALSE
    /\ pos = 0
    /\ pc = "idle"
    /\ NoCall

\* open, close, write, query (with its reads) and assignments to
\* termination_characters, in any order
NextAttributes ==
    \/ open
    \/ close
    \/ \E msg \in Messages : write(msg)
    \/ \E new_terminator \in SerialTerminators :
           termination_characters(new_terminator)
    \/ \E W \in Messages : QueryEnter(W)
    \/ Write
    \/ ReadChar
    \/ ReadTimeout
    \/ ReadFails
    \/ IterStop
    \/ Strip
    \/ Exit
    \/ Return

AttributeSpec == InitAttributes /\ [][NextAttributes]_vars

----------------------------------------------------------------------------
\* LakeShore475 over a communicator whose query answers a fixed response

\* the commands of the gaussmeter, character by character
RDGFIELD == <<"R", "D", "G", "F", "I", "E", "L", "D", "?">>
UNITS_QUERY == <<"U", "N", "I", "T", "S", "?">>
UNITS_TEMPLATE == <<"U", "N", "I", "T", "S", " ", "{0}">>

\* Mutant of format: the replacement field is removed, the argument lost
RECURSIVE FormatDropsArgument(_, _)
FormatDropsArgument(template, arg) ==
    IF template = <<>> THEN <<>>
    ELSE IF Head(template) = "{0}" THEN FormatDropsArgument(Tail(template), arg)
    ELSE <<Head(template)>> \o FormatDropsArgument(Tail(template), arg)

\* str.format with one argument: the replacement field {0} of the template
\* is replaced by the argument
RECURSIVE format(_, _)
format(template, arg) ==
    IF template = <<>> THEN <<>>
    ELSE IF Head(template) = "{0}" THEN arg \o format(Tail(template), arg)
    ELSE <<Head(template)>> \o format(Tail(template), arg)

\* str() of a str is that str
str(s) == s

\* float(str): the numeral is read as Python reads it.  A float is
\* <<"nan">>, <<"inf", negative>> or <<"finite", negative, m, x>> for the
\* value m * 10^x with m not divisible by 10 (m = 0 has x = 0); rounding of
\* m to 53 bits is not modelled, the numerals used have few digits.
DecimalDigits ==
    [c \in {"0", "1", "2", "3", "4", "5", "6", "7", "8", "9"} |->
        CASE c = "0" -> 0 [] c = "1" -> 1 [] c = "2" -> 2 [] c = "3" -> 3
          [] c = "4" -> 4 [] c = "5" -> 5 [] c = "6" -> 6 [] c = "7" -> 7
          [] c = "8" -> 8 [] c = "9" -> 9]

IsDigits(s) == \A i \in 1..Len(s) : s[i] \in DOMAIN DecimalDigits

RECURSIVE int(_)
int(s) ==
    IF s = <<>> THEN 0
    ELSE 10 * int(Prefix(s, Len(s) - 1)) + DecimalDigits[s[Len(s)]]

Whitespace == {" ", CR, LF}

RECURSIVE lstrip(_)
lstrip(s) ==
    IF s # <<>> /\ Head(s) \in Whitespace THEN lstrip(Tail(s)) ELSE s

RECURSIVE rstrip(_)
rstrip(s) ==
    IF s # <<>> /\ s[Len(s)] \in Whitespace
    THEN rstrip(Prefix(s, Len(s) - 1)) ELSE s

lower(s) ==
    [i \in 1..Len(s) |->
        CASE s[i] = "I" -> "i" [] s[i] = "N" -> "n" [] s[i] = "F" -> "f"
          [] s[i] = "A" -> "a" [] s[i] = "E" -> "e" [] OTHER -> s[i]]

\* number of characters of s before the first c, Len(s) when there is none
IndexOf(s, c) ==
    IF c \in Range(s) THEN SetMax({i \in 0..Len(s) : c \notin Range(Prefix(s, i))})
    ELSE Len(s)

Negative(s) == s # <<>> /\ Head(s) = "-"
Unsigned(s) == IF s # <<>> /\ Head(s) \in {"+", "-"} THEN Tail(s) ELSE s

Significand(s) == Prefix(s, IndexOf(s, "e"))
ExponentPart(s) == Drop(s, IndexOf(s, "e") + 1)
Whole(s) == Prefix(s, IndexOf(s, "."))
Fraction(s) == Drop(s, IndexOf(s, ".") + 1)

InfNames == {<<"i", "n", "f">>, <<"i", "n", "f", "i", "n", "i", "t", "y">>}

IsDecimal(u) ==
    /\ IsDigits(Whole(Significand(u)) \o Fraction(Significand(u)))
    /\ Whole(Significand(u)) \o Fraction(Significand(u)) # <<>>
    /\ "e" \in Range(u) =>
          /\ IsDigits(Unsigned(ExponentPart(u)))
          /\ Unsigned(ExponentPart(u)) # <<>>

\* float(s) returns a value; otherwise it raises ValueError
CanFloat(s) ==
    LET u == Unsigned(lower(rstrip(lstrip(s))))
    IN u \in InfNames \/ u = <<"n", "a", "n">> \/ IsDecimal(u)

RECURSIVE Normalized(_, _, _)
Normalized(negative, m, x) ==
    IF m = 0 THEN <<"finite", negative, 0, 0>>
    ELSE IF m % 10 = 0 THEN Normalized(negative, m \div 10, x + 1)
    ELSE <<"finite", negative, m, x>>

RECURSIVE NumDigits(_)
NumDigits(m) == IF m < 10 THEN 1 ELSE 1 + NumDigits(m \div 10)

\* decimal exponent of the largest double; below the exponent -324 of the
\* smallest one a numeral is read as zero
DBL_MAX_10_EXP == 308

float(s) ==
    LET t == lower(rstrip(lstrip(s)))
        negative == Negative(t)
        u == Unsigned(t)
        m == int(Whole(Significand(u)) \o Fraction(Significand(u)))
        e == IF "e" \in Range(u)
             THEN (IF Negative(ExponentPart(u)) THEN 0 - 1 ELSE 1)
                      * int(Unsigned(ExponentPart(u)))
             ELSE 0
        x == e - Len(Fraction(Significand(u)))
    IN  IF u = <<"n", "a", "n">> THEN <<"nan">>
        ELSE IF u \in InfNames THEN <<"inf", negative>>
        ELSE IF m # 0 /\ NumDigits(m) - 1 + x > DBL_MAX_10_EXP
             THEN <<"inf", negative>>
        ELSE IF m # 0 /\ NumDigits(m) - 1 + x < 0 - 324
             THEN <<"finite", negative, 0, 0>>
        ELSE Normalized(negative, m, x)

\* Mutant of isinf: only positive infinity is recognised
IsinfPositiveOnly(x) == x = <<"inf", FALSE>>

\* math.isnan and math.isinf
isnan(x) == x[1] = "nan"
isinf(x) == x[1] = "inf"

\* Bound of the model: how many times query is called on the communicator
MaxQueryCalls == 2

\* what query answers to RDGFIELD?: numerals, numerals that overflow,
\* the names of NaN and of the infinities, and text that is no numeral
FieldResponses ==
    {<<"+", "1", "2">>, <<"1", ".", "5">>, <<"1", "5", "e", "-", "1">>,
     <<"-", "0", ".", "5", "E", "+", "0", "1", CR>>,
     <<"1", "e", "9", "9", "9">>, <<"-", "1", "e", "9", "9", "9">>,
     <<"n", "a", "n">>, <<"i", "n", "f">>, <<"-", "I", "N", "F">>,
     <<>>, <<"G">>}

\* the units given to the setter
Units == {<<"G">>, <<"T">>, <<>>}

\* the communicator has answered nothing yet; its query will return stream
InitGaussmeter ==
    /\ stream \in FieldResponses \cup Units
    /\ _communicator = NoQueries
    /\ _terminator = <<CR, LF>>
    /\ portOpen = FALSE
    /\ pos = 0
    /\ pc = "idle"
    /\ init_args = DefaultArgs
    /\ _port = init_args.port
    /\ _serial = serial_constructor(init_args)
    /\ NoCall

\* self._communicator.query(command): the call is recorded, stream returned
query(command) ==
    /\ Len(_communicator.query) < MaxQueryCalls
    /\ _communicator' = [_communicator EXCEPT !.query = Append(@, command)]
    /\ message' = command

\* LakeShore475.field (getter)
field ==
    /\ pc = "idle"
    /\ query(RDGFIELD)
    /\ IF ~CanFloat(stream)
       THEN /\ exc' = "ValueError"
            /\ pc' = "raised"
            /\ UNCHANGED result
       ELSE LET field_response == float(stream)
            IN  IF isnan(field_response) \/ isinf(field_response)
                THEN /\ exc' = "IOError"
                     /\ pc' = "raised"
                     /\ UNCHANGED result
                ELSE /\ result' = field_response
                     /\ pc' = "returned"
                     /\ UNCHANGED exc
    /\ UNCHANGED <<_port, init_args, _serial, _terminator, portOpen, stream,
                   pos, buffer, last_characters_read, maxlen, result_string,
                   timedOut, exc_val, log, wasOpen, startPos>>

\* LakeShore475.units (getter)
units ==
    /\ pc = "idle"
    /\ query(UNITS_QUERY)
    /\ result' = str(stream)
    /\ pc' = "returned"
    /\ UNCHANGED <<_port, init_args, _serial, _terminator, portOpen, stream,
                   pos, buffer, last_characters_read, maxlen, result_string,
                   timedOut, exc_val, exc, log, wasOpen, startPos>>

\* LakeShore475.units (setter): nothing is returned
units_setter(new_unit) ==
    /\ pc = "idle"
    /\ query(format(UNITS_TEMPLATE, new_unit))
    /\ pc' = "returned"
    /\ UNCHANGED <<_port, init_args, _serial, _terminator, portOpen, stream,
                   pos, buffer, last_characters_read, maxlen, result_string,
                   timedOut, exc_val, exc, result, log, wasOpen, startPos>>

NextGaussmeter ==
    \/ field
    \/ units
    \/ \E new_unit \in Units : units_setter(new_unit)
    \/ Return

GaussmeterSpec == InitGaussmeter /\ [][NextGaussmeter]_vars

----------------------------------------------------------------------------
\* SerialCommunicator: the serial parameters given to the constructor

\* A SerialCommunicator built with any data bits, stop bits and parity
InitParameters ==
    /\ init_args \in {[DefaultArgs EXCEPT !.data_bits = d, !.stop_bits = s,
                                          !.parity_bits = p] :
                         d \in Databits, s \in StopBits, p \in ParityBits}
    /\ _port = init_args.port
    /\ _serial = serial_constructor(init_args)
    /\ _communicator = NoQueries
    /\ _terminator = <<CR, LF>>
    /\ stream = <<>>
    /\ portOpen = FALSE
    /\ pos = 0
    /\ pc = "idle"
    /\ NoCall

\* a getter that reads the attribute attr of the serial port object and
\* returns value; the attribute read is the one entry of log
Getter(attr, value) ==
    /\ pc = "idle"
    /\ log' = <<attr>>
    /\ result' = value
    /\ pc' = "returned"
    /\ UNCHANGED <<_port, init_args, _communicator, _serial, _terminator,
                   portOpen, stream, pos, message, buffer,
                   last_characters_read, maxlen, result_string, timedOut,
                   exc_val, exc, wasOpen, startPos>>

\* SerialCommunicator.parity_bits
parity_bits == Getter("parity", _PARITY_LOOKUP[_serial.parity])

\* SerialCommunicator.stop_bits
stop_bits == Getter("stopbits", _STOPBITS_LOOKUP[_serial.stopbits])

\* SerialCommunicator.data_bits
data_bits == Getter("bytesize", _DATABITS_LOOKUP[_serial.bytesize])

NextParameters ==
    \/ parity_bits
    \/ stop_bits
    \/ data_bits
    \/ open
    \/ close
    \/ Return

ParameterSpec == InitParameters /\ [][NextParameters]_vars

----------------------------------------------------------------------------
\* The AbstractDeviceCommunicator of abstract_classes/__init__.py: __iter__

\* _should_stop of that class
_should_stop(window, T) == window = T

\* the first next() on iter(self) reaches "with self": __enter__
PackagedIterEnter ==
    /\ pc = "idle"
    /\ wasOpen' = is_open
    /\ startPos' = pos
    /\ maxlen' = Len(_terminator)
    /\ last_characters_read' = <<>>
    /\ log' = __enter__(is_open)
    /\ portOpen' = IF "open" \in Range(__enter__(is_open)) THEN TRUE
                   ELSE portOpen
    /\ pc' = "read"
    /\ UNCHANGED <<_port, init_args, _communicator, _serial, _terminator,
                   stream, pos, message, buffer, result_string, timedOut,
                   exc_val, exc, result>>

\* new_char = self.read() and what follows it: the window is appended to;
\* on _should_stop StopIteration is raised inside the with block, whose
\* __exit__ runs; otherwise new_char is yielded with the port still open
PackagedRead(new_char) ==
    /\ pc = "read"
    /\ last_characters_read' =
           DequeAppend(last_characters_read, maxlen, new_char)
    /\ IF _should_stop(last_characters_read', _terminator)
       THEN /\ log' = LogAppend(log, "read") \o __exit__(is_open)
            /\ portOpen' = IF "close" \in Range(__exit__(is_open)) THEN FALSE
                           ELSE portOpen
            \* a StopIteration raised inside a generator ends the iteration
            \* (Python before 3.7) or becomes a RuntimeError (PEP 479)
            /\ \E outcome \in {"ends", "RuntimeError"} :
                  IF outcome = "ends"
                  THEN /\ pc' = "returned"
                       /\ result' = result_string
                       /\ UNCHANGED exc
                  ELSE /\ pc' = "raised"
                       /\ exc' = "RuntimeError"
                       /\ UNCHANGED result
            /\ UNCHANGED result_string
       ELSE /\ log' = LogAppend(log, "read")
            /\ result_string' = JoinAppend(result_string, new_char)
            /\ pc' = "yielded"
            /\ UNCHANGED <<portOpen, exc, result>>
    /\ UNCHANGED <<_port, init_args, _communicator, _serial, _terminator,
                   stream, message, buffer, maxlen, exc_val, wasOpen,
                   startPos>>

\* the transport has a character
PackagedReadChar ==
    /\ pos < Len(stream)
    /\ PackagedRead(stream[pos + 1])
    /\ pos' = pos + 1
    /\ UNCHANGED timedOut

\* the transport's read times out
PackagedReadTimeout ==
    /\ PackagedRead(EMPTY)
    /\ timedOut' = TRUE
    /\ UNCHANGED pos

\* the next next(): the generator resumes after its yield, leaves the with
\* block (__exit__) and returns, which ends the iteration; ''.join of what
\* was yielded is the value of __str__
PackagedIterResume ==
    /\ pc = "yielded"
    /\ log' = log \o __exit__(is_open)
    /\ portOpen' = IF "close" \in Range(__exit__(is_open)) THEN FALSE
                   ELSE portOpen
    /\ result' = result_string
    /\ pc' = "returned"
    /\ UNCHANGED <<_port, init_args, _communicator, _serial, _terminator,
                   stream, pos, message, buffer, last_characters_read, maxlen,
                   result_string, timedOut, exc_val, exc, wasOpen, startPos>>

NextPackaged ==
    \/ PackagedIterEnter
    \/ PackagedReadChar
    \/ PackagedReadTimeout
    \/ PackagedIterResume
    \/ Return

PackagedSpec == Init /\ [][NextPackaged]_vars

----------------------------------------------------------------------------
\* The framing window of __iter__ over reads that may time out

\* Bound of the model: how many reads the transport answers
MaxReads == 4

\* what one call of read returns: a character, or '' when it times out
ReadResults == {"a", CR, LF, EMPTY}

\* the termination characters of the Communicators whose window is followed
WindowTerminators == {<<>>, <<LF>>, <<CR, LF>>, <<"a", CR, LF>>}

\* A Communicator over a closed port; stream lists what the successive calls
\* of read will return
InitWindow ==
    /\ _terminator \in WindowTerminators
    /\ stream \in SeqsUpTo(ReadResults, MaxReads)
    /\ portOpen = FALSE
    /\ pos = 0
    /\ pc = "idle"
    /\ init_args = DefaultArgs
    /\ _port = init_args.port
    /\ _serial = serial_constructor(init_args)
    /\ _communicator = NoQueries
    /\ NoCall

\* one pass of the while loop of __iter__: read returns the next entry of
\* stream, a character or ''
Read ==
    /\ pc = "iter"
    /\ _should_keep_reading(last_characters_read, _terminator)
    /\ pos < Len(stream)
    /\ Yield(stream[pos + 1])
    /\ pos' = pos + 1
    /\ timedOut' = (timedOut \/ stream[pos + 1] = EMPTY)
    /\ UNCHANGED <<_port, init_args, _communicator, _serial, _terminator,
                   portOpen, stream, pc, message, buffer, maxlen, exc_val,
                   exc, result, wasOpen, startPos>>

NextWindow ==
    \/ \E W \in Messages : QueryEnter(W)
    \/ Write
    \/ Read
    \/ IterStop
    \/ Strip
    \/ Exit
    \/ Return

WindowSpec == InitWindow /\ [][NextWindow]_vars

\* termination_characters is assigned while the generator of __iter__ is
\* suspended at its yield
SetDuringIteration(new_terminator) ==
    /\ pc = "iter"
    /\ _terminator' = new_terminator
    /\ UNCHANGED <<_port, init_args, _communicator, _serial, portOpen,
                   stream, pos, pc, message, buffer, last_characters_read,
                   maxlen, result_string, timedOut, exc_val, exc, result, log,
                   wasOpen, startPos>>

NextMutation ==
    \/ NextWindow
    \/ \E new_terminator \in WindowTerminators :
           SetDuringIteration(new_terminator)

MutationSpec == InitWindow /\ [][NextMutation]_vars

----------------------------------------------------------------------------
\* LakeShore475 over an AbstractDeviceCommunicator: the units setter

\* LakeShore475.units (setter) calls query of its communicator, here the
\* query of AbstractDeviceCommunicator; the setter returns when that query
\* returns and raises what it raises
UnitsSetterEnter(new_unit) == QueryEnter(format(UNITS_TEMPLATE, new_unit))

\* The gaussmeter on a port nothing else touches, whose open, write and
\* close do not raise; each read returns a character or times out
NextRoundTrip ==
    \/ \E new_unit \in Units : UnitsSetterEnter(new_unit)
    \/ Write
    \/ ReadChar
    \/ ReadTimeout
    \/ IterStop
    \/ Strip
    \/ Exit
    \/ Return

RoundTripSpec == Init /\ [][NextRoundTrip]_vars

----------------------------------------------------------------------------
\* Properties of query's port handling

\* the remaining device stream when the current call started
Rest == Drop(stream, startPos)

\* the with body of query raised in its write or its read step
BodyFailed == exc_val \in {"WriteError", "ReadError"}

\* C1: if the port is already open when query is called, query leaves it
\* open when it returns and does not call close on it (stated for the
\* Communicators with a non-empty terminator).
C1_OpenPortLeftOpen ==
    (pc = "returned" /\ wasOpen /\ _terminator # <<>>) =>
        (portOpen /\ "close" \notin Range(log))

\* C2 as claimed: if the write or the read step raises and this call opened
\* the port, close is invoked before the exception reaches the caller, the
\* port ends closed and the caller receives the exception of that step.
C2_Original ==
    (pc \in {"returned", "raised"} /\ ~wasOpen /\ BodyFailed) =>
        /\ pc = "raised"
        /\ "close" \in Range(log)
        /\ ~portOpen
        /\ exc = exc_val

\* C2 amended: if the write or the read step raises and this call opened the
\* port, close is invoked before any exception reaches the caller; when that
\* close returns, the port ends closed and the caller receives the
\* exception of the write or read step; when close raises, the caller
\* receives the exception of close.
C2_ScopedCloseOnFailure ==
    (pc \in {"returned", "raised"} /\ ~wasOpen /\ BodyFailed) =>
        /\ pc = "raised"
        /\ "close" \in Range(log)
        /\ \/ exc = "CloseError"
           \/ exc = exc_val /\ ~portOpen

C2_Witness ==
    /\ pc = "raised"
    /\ ~wasOpen
    /\ exc = "ReadError"
    /\ exc_val = "ReadError"
    /\ ~portOpen
    /\ log = <<"is_open", "open", "write", "read", "is_open", "close">>

\* C3: query on a Communicator whose port is closed opens the port, does
\* the write and the reads while the port is open, and leaves the port
\* closed when it returns successfully.
C3_ClosedPortQuery ==
    /\ (pc \in {"write", "iter", "matched"} /\ ~wasOpen) => portOpen
    /\ (pc = "returned" /\ ~wasOpen) =>
          /\ ~portOpen
          /\ buffer = message
          /\ log \in {<<"is_open", "open", "write", "read", "is_open", "close">>,
                      <<"is_open", "open", "write", "is_open", "close">>}

C3_Witness ==
    /\ pc = "returned"
    /\ ~wasOpen
    /\ ~portOpen
    /\ _terminator # <<>>
    /\ result # NoValue
    /\ log = <<"is_open", "open", "write", "read", "is_open", "close">>

----------------------------------------------------------------------------
\* Properties of the framing

CRLF == <<CR, LF>>

\* the device stream of the current call is some M followed by T
EndsWith(s, T) == Len(s) >= Len(T) /\ Drop(s, Len(s) - Len(T)) = T

\* s without its last n characters
Body(s, n) == Prefix(s, Len(s) - n)

\* T occurs in s, and only as its last Len(T) characters
OnlyAtEnd(T, s) == Contains(T, s) /\ FirstIndex(T, s) + Len(T) = Len(s)

\* the loop of __iter__ has ended by itself in the current call
LoopOver ==
    /\ pc \in {"matched", "exit", "returned", "raised"}
    /\ buffer # NoValue
    /\ exc_val \in {"none", "IOError"}

\* _last_read_message_from_device has just produced its outcome
StripDone == pc = "exit" /\ exc_val \in {"none", "IOError"}

C5_BodyWithoutTerminator ==
    (StripDone /\ _terminator # <<>> /\ OnlyAtEnd(_terminator, Rest)) =>
        /\ exc_val = "none"
        /\ result = Body(Rest, Len(_terminator))

\* C6: for every M and every non-empty T, iterating the communicator over
\* the stream M+T yields exactly the characters that precede the first
\* occurrence of T: the terminator is consumed but never yielded.
C6_IterYieldsBodyOnly ==
    (/\ pc = "matched"
     /\ _terminator # <<>>
     /\ ~timedOut
     /\ EndsWith(Rest, _terminator)) =>
        result_string = Prefix(Rest, FirstIndex(_terminator, Rest))

\* C7: first match wins: over a stream M+T+X with non-empty T, the read loop
\* stops at the first position at which the last len(T) characters read are
\* T, never earlier, and no character after that occurrence is read.
C7_FirstMatchWins ==
    (LoopOver /\ _terminator # <<>> /\ ~timedOut) =>
        /\ Contains(_terminator, Rest)
        /\ pos = startPos + FirstIndex(_terminator, Rest) + Len(_terminator)

C7_Witness ==
    /\ pc = "matched"
    /\ ~timedOut
    /\ Len(_terminator) = 1
    /\ Len(stream) = 3
    /\ startPos = 0
    /\ FirstIndex(_terminator, stream) = 1
    /\ pos = 2
    /\ stream[3] = _terminator[1]

\* C8: when the stream is exactly the non-empty terminator T, the message
\* body returned is the empty string.
C8_TerminatorAloneGivesEmptyBody ==
    (StripDone /\ _terminator # <<>> /\ Rest = _terminator) =>
        /\ exc_val = "none"
        /\ result = <<>>

\* C9: if a read yields no character (end of data, a timeout) before the
\* terminator has been found, the read loop ends by raising an error
\* instead of reading on.
C9_EndOfInputRaises ==
    [][(pc = "iter" /\ timedOut) => ~(ReadChar \/ ReadTimeout)]_vars

\* C10: the read loop is finite: when the stream still to be read holds the
\* non-empty terminator T and the transport delivers its characters one
\* after the other (no read times out or raises), the loop ends after
\* finitely many reads and the generator is exhausted.
C10_ReadLoopTerminates ==
    (/\ pc = "iter"
     /\ _terminator # <<>>
     /\ ~timedOut
     /\ Contains(_terminator, Rest))
        ~> (pc = "matched" \/ timedOut \/ exc_val = "ReadError")

C10_Witness ==
    /\ pc = "matched"
    /\ ~timedOut
    /\ Len(_terminator) = 2
    /\ Rest = <<LF>> \o _terminator
    /\ pos = Len(stream)

----------------------------------------------------------------------------
\* Properties of the configuration and of the context manager

\* C11: a termination sequence of length 0 is rejected at configuration
\* time: neither the constructor nor the setter of termination_characters
\* leaves the Communicator with an empty terminator, so no read runs with
\* one.
C11_EmptyTerminatorRejected ==
    /\ _terminator # <<>>
    /\ pc = "iter" => maxlen > 0

\* C13: entering the context manager calls open exactly when the port is
\* not open at that moment: a closed port is opened, an open port is not
\* opened again, and close is not called on entry.
C13_EnterOpensWhenClosed ==
    /\ pc = "with" =>
          log = IF wasOpen THEN <<"is_open">> ELSE <<"is_open", "open">>
    /\ (pc = "raised" /\ exc = "OpenError") =>
          /\ ~wasOpen
          /\ log = <<"is_open", "open">>

C13_Witness ==
    /\ pc = "with"
    /\ wasOpen
    /\ portOpen
    /\ log = <<"is_open">>

\* C14: leaving the context manager calls close exactly when the port is
\* open at exit time, as is_open reports it then: a port still open is
\* closed, and a port closed by something else inside the block is not
\* closed again.
C14_ExitClosesWhenOpen ==
    [][(Exit \/ ExitCloseFails) =>
          log' = log \o (IF portOpen THEN <<"is_open", "close">>
                         ELSE <<"is_open">>)]_vars

C14_Witness ==
    /\ pc = "returned"
    /\ message = NoValue
    /\ ~portOpen
    /\ log = <<"is_open", "open", "is_open">>

\* the transport operations of one complete query, in the order of the code:
\* the is_open of __enter__, its open, the write, the reads, the is_open of
\* __exit__, its close
QueryOrders(was_open) ==
    {<<"is_open">> \o opens \o <<"write">> \o reads \o <<"is_open">> \o closes :
        opens \in {IF was_open THEN <<>> ELSE <<"open">>},
        reads \in {<<>>, <<"read">>},
        closes \in {<<>>, <<"close">>}}

IsPrefix(l, full) == Len(l) <= Len(full) /\ Prefix(full, Len(l)) = l

\* C16: within one query call the transport operations occur in this order:
\* the is_open check, open (only if the port was closed), one write of the
\* message, then the character reads, then the close of the port the call
\* opened; no read precedes the write and no write or read follows the
\* close.
C16_QueryOrder ==
    message # NoValue =>
        /\ \E full \in QueryOrders(wasOpen) : IsPrefix(log, full)
        /\ pc \in {"iter", "matched", "returned"} =>
              /\ buffer = message
              /\ "write" \in Range(log)
        /\ (pc = "returned" /\ ~wasOpen) => log[Len(log)] = "close"

C16_Witness ==
    /\ pc = "returned"
    /\ ~wasOpen
    /\ message = <<"a">>
    /\ buffer = <<"a">>
    /\ Len(result) = 2
    /\ log = <<"is_open", "open", "write", "read", "is_open", "close">>

\* C17: transport errors are not retried: after the write or a read of a
\* query has raised, that call makes no further write and no further read,
\* only the is_open check and the close of __exit__ follow; no call makes a
\* second write attempt.
C17_NoRetry ==
    [][/\ BodyFailed =>
             ~(Write \/ WriteFails \/ ReadChar \/ ReadTimeout \/ ReadFails)
       /\ "write" \in Range(log) => ~(Write \/ WriteFails)
       /\ (BodyFailed /\ pc = "exit") =>
             log' \in {log \o <<"is_open">>, log \o <<"is_open", "close">>}]_vars

C17_Witness ==
    /\ pc = "raised"
    /\ exc = "WriteError"
    /\ buffer = NoValue
    /\ log = <<"is_open", "open", "write", "is_open", "close">>

\* C18: the message sequence does not rewind: a read of a message starts at
\* the beginning of the stream or at the first character after the
\* terminator the read before it consumed, it takes the characters of the
\* stream one after the other from there, none twice and none skipped, and
\* it consumes no character beyond the first terminator.
C18_NoRewind ==
    message # NoValue =>
        /\ startPos = 0 \/ EndsWith(Prefix(stream, startPos), _terminator)
        /\ pc \in {"iter", "matched"} =>
              result_string = SubSeq(stream, startPos + 1, pos)
        /\ (LoopOver /\ ~timedOut) =>
              /\ Contains(_terminator, Rest)
              /\ pos = startPos + FirstIndex(_terminator, Rest)
                                + Len(_terminator)

\* terminator '\r\n', stream '\r\n\r\n': the second read starts after the
\* first terminator and yields an empty body from the second one
C18_Witness ==
    /\ pc = "returned"
    /\ stream = CRLF \o CRLF
    /\ startPos = 2
    /\ pos = 4
    /\ result = <<>>
    /\ ~timedOut

\* C19: in any sequence of queries, each succeeding or failing in its
\* write or read step, on a Communicator whose port starts closed and is
\* touched by nothing else, the port is closed whenever no query is in
\* progress: every query, a retried one included, starts from a closed
\* port.
C19_ClosedBetweenQueries ==
    /\ pc \in {"idle", "returned", "raised"} => ~portOpen
    /\ pc # "idle" => ~wasOpen

C19_Witness ==
    /\ pc = "raised"
    /\ exc = "ReadError"
    /\ startPos > 0
    /\ ~wasOpen
    /\ ~portOpen
    /\ log = <<"is_open", "open", "write", "read", "is_open", "close">>

\* C20: the framing loop emits with a lookahead of len(T): no character is
\* emitted before len(T) characters have been read, and after n reads the
\* characters emitted are the first n - len(T) characters read, so the
\* emission lags the reading by len(T) characters.
C20_EmissionLagsReading ==
    (pc = "iter" /\ _terminator # <<>> /\ ~timedOut) =>
        result_string =
            Prefix(Rest, IF pos - startPos > Len(_terminator)
                         THEN pos - startPos - Len(_terminator) ELSE 0)

\* C12: open and close are idempotent as judged by the live is_open: open
\* on a port that is_open reports open does not call the serial port
\* object's open again, and close on a port it reports closed does not call
\* its close again.
C12_OpenCloseIdempotent ==
    [][/\ (open /\ portOpen) => _serial'.open = _serial.open
       /\ (close /\ ~portOpen) => _serial'.close = _serial.close]_vars

\* C15: for every message, write passes to the serial port object's write,
\* in a single call, exactly the UTF-8 bytes of the message followed by the
\* UTF-8 bytes of the termination characters current at that moment; a
\* message that has no UTF-8 encoding reaches the port object not at all.
C15_WriteSendsMessageAndTerminator ==
    [][\A msg \in SerialMessages :
          /\ write(msg) =>
                /\ _serial'.write = _serial.write + 1
                /\ _serial'.write_args = encode(msg) \o encode(_terminator)
          /\ write_raises(msg) => _serial' = _serial]_vars

C15_Witness ==
    /\ _serial.write = 2
    /\ _terminator = <<DOLLAR>>
    /\ _serial.write_args = <<97, 195, 169, 36>>

----------------------------------------------------------------------------
\* Properties of the attributes

\* C21: the open state is never cached: in every state is_open is the
\* port's current open state, also after something other than the
\* Communicator has opened or closed the port, and __enter__ and __exit__
\* (in a with block and in query) call open and close according to that
\* state at the moment they run.
C21_IsOpenLive ==
    /\ [](is_open = portOpen)
    /\ [][/\ (pc = "idle" /\ log' # <<>>) =>
                log' = IF portOpen THEN <<"is_open">>
                       ELSE <<"is_open", "open">>
          /\ (Exit \/ ExitCloseFails) =>
                log' = log \o (IF portOpen THEN <<"is_open", "close">>
                               ELSE <<"is_open">>)]_vars

\* the port was opened by other code before the block and closed by other
\* code inside it: neither open nor close is called
C21_Witness ==
    /\ pc = "returned"
    /\ message = NoValue
    /\ wasOpen
    /\ ~portOpen
    /\ log = <<"is_open", "is_open">>

\* C22: the port identifier is immutable after construction: after any
\* sequence of open, close, read, write, query and termination_characters
\* assignments, port returns the value the constructor was given.
C22_PortImmutable == port = init_args.port

C22_Witness ==
    /\ port = "COM1"
    /\ pc = "returned"
    /\ _terminator = <<LF>>
    /\ _serial.open > 0
    /\ _serial.close > 0
    /\ _serial.write > 0
    /\ pos > 0

\* C23: after termination_characters is set to a string s the getter
\* returns s, and it keeps returning s until the next assignment, whatever
\* open, close, write or query calls come in between.
C23_TerminatorSetGet ==
    [][/\ \A s \in SerialTerminators :
             termination_characters(s) => get_termination_characters' = s
       /\ (\A s \in SerialTerminators : ~termination_characters(s)) =>
             get_termination_characters' = get_termination_characters]_vars

C23_Witness ==
    /\ get_termination_characters = <<LF>>
    /\ init_args.port = "/dev/ttyUSB0"
    /\ pc = "returned"
    /\ pos = Len(stream)
    /\ _serial.open > 0
    /\ _serial.close > 0
    /\ _serial.write > 0

----------------------------------------------------------------------------
\* Properties of the gaussmeter

\* the arguments query has been called with, self._communicator.query's
\* call_args_list
call_args_list == _communicator.query

\* C24: reading field issues exactly one query, with the command RDGFIELD?,
\* and returns the response converted to a number; when the converted
\* response is NaN or infinite, IOError is raised and no value is returned
\* (a response that is no numeral raises the ValueError of the conversion).
C24_FieldQueriesOnce ==
    /\ []((pc \in {"returned", "raised"} /\ message = RDGFIELD) =>
            /\ call_args_list[Len(call_args_list)] = RDGFIELD
            /\ pc = "returned" =>
                  /\ CanFloat(stream)
                  /\ result = float(stream)
                  /\ result[1] = "finite"
            /\ (CanFloat(stream) /\ float(stream)[1] \in {"nan", "inf"}) =>
                  /\ pc = "raised"
                  /\ exc = "IOError"
                  /\ result = NoValue
            /\ (CanFloat(stream) /\ float(stream)[1] = "finite") =>
                  pc = "returned"
            /\ ~CanFloat(stream) => (pc = "raised" /\ exc = "ValueError"))
    /\ [][field => call_args_list' = Append(call_args_list, RDGFIELD)]_vars

C24_Witness ==
    /\ pc = "raised"
    /\ exc = "IOError"
    /\ stream = <<"-", "1", "e", "9", "9", "9">>
    /\ call_args_list = <<UNITS_QUERY, RDGFIELD>>

\* C25: setting units to u issues exactly one query whose message is
\* 'UNITS ' followed by u; reading units issues exactly one query, UNITS?,
\* and returns its response; neither issues another command.
C25_UnitsQueriesOnce ==
    /\ []((pc = "returned" /\ message = UNITS_QUERY) =>
            /\ result = stream
            /\ call_args_list[Len(call_args_list)] = UNITS_QUERY)
    /\ [][/\ units => call_args_list' = Append(call_args_list, UNITS_QUERY)
          /\ \A u \in Units :
                units_setter(u) =>
                    /\ call_args_list' =
                          Append(call_args_list,
                                 <<"U", "N", "I", "T", "S", " ">> \o u)
                    /\ result' = NoValue]_vars

C25_Witness ==
    /\ pc = "returned"
    /\ stream = <<"G">>
    /\ result = <<"G">>
    /\ call_args_list = <<<<"U", "N", "I", "T", "S", " ", "G">>, UNITS_QUERY>>

----------------------------------------------------------------------------
\* Properties of the serial parameters

\* lookup and enum_lookup are mutual inverses between natives and enum
Inverses(lookup, enum_lookup, enum) ==
    /\ DOMAIN enum_lookup = enum
    /\ \A e \in enum : /\ enum_lookup[e] \in DOMAIN lookup
                       /\ lookup[enum_lookup[e]] = e
    /\ \A n \in DOMAIN lookup : /\ lookup[n] \in enum
                                /\ enum_lookup[lookup[n]] = n

\* C26: for data bits, stop bits and parity the enum-to-native and the
\* native-to-enum table are mutual inverses; a SerialCommunicator built with
\* enum value e hands the native constant of e to the serial port, and its
\* getter maps that constant back to e.
C26_LookupTablesInverse ==
    /\ Inverses(_DATABITS_LOOKUP, _DATABITS_ENUM_LOOKUP, Databits)
    /\ Inverses(_STOPBITS_LOOKUP, _STOPBITS_ENUM_LOOKUP, StopBits)
    /\ Inverses(_PARITY_LOOKUP, _PARITY_ENUM_LOOKUP, ParityBits)
    /\ _serial.bytesize = _DATABITS_ENUM_LOOKUP[init_args.data_bits]
    /\ _serial.stopbits = _STOPBITS_ENUM_LOOKUP[init_args.stop_bits]
    /\ _serial.parity = _PARITY_ENUM_LOOKUP[init_args.parity_bits]
    /\ (pc = "returned" /\ log = <<"bytesize">>) =>
          result = init_args.data_bits
    /\ (pc = "returned" /\ log = <<"stopbits">>) =>
          result = init_args.stop_bits
    /\ (pc = "returned" /\ log = <<"parity">>) =>
          result = init_args.parity_bits

C26_Witness ==
    /\ init_args.data_bits = "FIVE"
    /\ init_args.stop_bits = "ONE_POINT_FIVE"
    /\ init_args.parity_bits = "EVEN"
    /\ _serial.parity = "serial.PARITY_EVEN"
    /\ pc = "returned"
    /\ log = <<"parity">>
    /\ result = "EVEN"
    /\ _serial.open > 0
    /\ _serial.close > 0

----------------------------------------------------------------------------
\* Properties of the iterator of abstract_classes/__init__.py

\* C27 as claimed: when the device sends the termination characters, the
\* iterator of the AbstractDeviceCommunicator of abstract_classes/__init__.py
\* reads on until it has read them, and the iteration then ends having
\* yielded every character read before them.
C27_PackagedIterReadsToTerminator ==
    (pc \in {"returned", "raised"} /\ _terminator # <<>>
        /\ Contains(_terminator, Rest) /\ ~timedOut) =>
        /\ pc = "returned"
        /\ pos = startPos + FirstIndex(_terminator, Rest) + Len(_terminator)
        /\ result = Prefix(Rest, FirstIndex(_terminator, Rest))

----------------------------------------------------------------------------
\* Properties of the framing window

\* what the reads of the current loop have returned, in order
ReadsSoFar == SubSeq(stream, startPos + 1, pos)

\* the last n entries of s
LastN(s, n) == SubSeq(s, Len(s) - n + 1, Len(s))

Min(a, b) == IF a <= b THEN a ELSE b

\* C28: at every step of a read loop the window holds at most len(T)
\* entries, len(T) taken when the loop started, and after n reads it holds
\* exactly the most recent min(n, len(T)) read results in arrival order.
C28_WindowHoldsLastReads ==
    /\ [](pc = "iter" =>
            /\ Len(last_characters_read) <= maxlen
            /\ last_characters_read =
                  LastN(ReadsSoFar, Min(Len(ReadsSoFar), maxlen)))
    /\ [][/\ Write => maxlen' = Len(_terminator)
          /\ (pc = "iter" /\ pc' = "iter") => maxlen' = maxlen]_vars

C28_Witness ==
    /\ pc = "iter"
    /\ maxlen = 2
    /\ _terminator = <<"a", CR, LF>>
    /\ ReadsSoFar = <<CR, EMPTY, LF, "a">>
    /\ last_characters_read = <<LF, "a">>

\* C29: every read result, an empty one included, takes one window slot;
\* the loop stops only when the last len(T) read results, empty ones
\* counted, are the characters of T, so a terminator whose characters are
\* separated by a timed-out read is not recognised although the joined text
\* contains T.
C29_EmptyReadTakesSlot ==
    /\ [](pc = "iter" =>
            (~_should_keep_reading(last_characters_read, _terminator) <=>
                /\ Len(ReadsSoFar) >= Len(_terminator)
                /\ LastN(ReadsSoFar, Len(_terminator)) = _terminator))
    /\ [][IterStop =>
            LastN(ReadsSoFar, Len(_terminator)) = _terminator]_vars
    /\ [][Read =>
            Len(last_characters_read') =
                Min(Len(last_characters_read) + 1, maxlen)]_vars

C29_Witness ==
    /\ pc = "iter"
    /\ _terminator = <<CR, LF>>
    /\ ReadsSoFar = <<CR, EMPTY, LF>>
    /\ last_characters_read = <<EMPTY, LF>>
    /\ Contains(_terminator, result_string)
    /\ _should_keep_reading(last_characters_read, _terminator)

\* the stop test of the while loop of __iter__ succeeds
StopTest == ~_should_keep_reading(last_characters_read, _terminator)

\* the terminator is longer than the window can become, or shorter than the
\* window already is
OutOfReach ==
    \/ Len(_terminator) > maxlen
    \/ Len(_terminator) < Len(last_characters_read)

\* C30 as claimed: once termination_characters has a length other than the
\* one captured when the loop started, the stop test does not succeed.
C30_Original == (pc = "iter" /\ Len(_terminator) # maxlen) => ~StopTest

\* C30 amended: the stop test compares the window with the terminator
\* current at that step while the capacity stays as captured; after a change
\* to a string that is longer than the captured length, or shorter than the
\* number of entries the window holds, the stop test can never succeed
\* while that string stays and the loop keeps reading.
C30_StopTestOutOfReach ==
    /\ [](pc = "iter" /\ OutOfReach => ~StopTest)
    /\ [][/\ IterStop => last_characters_read = _terminator
          /\ (pc = "iter" /\ pc' = "iter") => maxlen' = maxlen
          /\ (pc = "iter" /\ OutOfReach /\ _terminator' = _terminator) =>
                (pc' = "iter" /\ OutOfReach')]_vars

C30_Witness ==
    /\ pc = "iter"
    /\ maxlen = 2
    /\ _terminator = <<LF>>
    /\ ReadsSoFar = <<"a", CR, LF, LF>>
    /\ last_characters_read = <<LF, LF>>

----------------------------------------------------------------------------
\* Properties of the errors of open and close

\* C31: if the transport's open raises while query is acquiring the port,
\* the error reaches the caller and that call of query performs no write, no
\* read and no close.
C31_OpenErrorReachesCaller ==
    /\ [](exc = "OpenError" =>
            /\ pc = "raised"
            /\ ~wasOpen
            /\ log = <<"is_open", "open">>
            /\ buffer = NoValue
            /\ pos = startPos
            /\ result = NoValue)
    /\ [][(\E W \in Messages : QueryEnterFails(W)) =>
             (pc' = "raised" /\ exc' = "OpenError")]_vars

C31_Witness ==
    /\ pc = "raised"
    /\ exc = "OpenError"
    /\ message = <<"a">>
    /\ pos > 0
    /\ pos < Len(stream)
    /\ ~portOpen

\* C32: if the write or the read step of query raises E and the close of the
\* __exit__ that follows raises E2, the caller receives E2 from query, not E.
C32_CloseErrorReplacesBodyError ==
    /\ []((pc = "raised" /\ BodyFailed) =>
            \/ exc = exc_val /\ log[Len(log)] \in {"is_open", "close"}
            \/ exc = "CloseError" /\ log[Len(log)] = "close")
    /\ [][(ExitCloseFails /\ BodyFailed) =>
             /\ pc' = "raised"
             /\ exc' = "CloseError"
             /\ exc' # exc_val]_vars

C32_Witness ==
    /\ pc = "raised"
    /\ exc_val = "ReadError"
    /\ exc = "CloseError"
    /\ pos > startPos
    /\ log = <<"is_open", "open", "write", "read", "is_open", "close">>

----------------------------------------------------------------------------
\* Properties of the units setter over a device

\* the characters the device has delivered to the current call
Received == SubSeq(stream, startPos + 1, pos)

\* no character has arrived in the current call and a read has timed out
OnlyTimeouts == timedOut /\ pos = startPos

\* C33: setting units is a whole query: the setter returns only after the
\* command was written and a response ending in the terminator was read;
\* while the device sends nothing and the reads only time out, the call
\* stays in its read loop and goes on reading, so the setter does not
\* return.
C33_SetterWaitsForResponse ==
    /\ [](pc = "returned" =>
            /\ \E u \in Units :
                  buffer = <<"U", "N", "I", "T", "S", " ">> \o u
            /\ Len(Received) >= Len(_terminator)
            /\ LastN(Received, Len(_terminator)) = _terminator)
    /\ [](OnlyTimeouts =>
            /\ pc = "iter"
            /\ _should_keep_reading(last_characters_read, _terminator))
    /\ [][OnlyTimeouts => (pc' = "iter" /\ log' = log)]_vars

C33_Witness ==
    /\ pc = "iter"
    /\ OnlyTimeouts
    /\ _terminator = <<CR, LF>>
    /\ stream = <<>>
    /\ buffer = <<"U", "N", "I", "T", "S", " ", "G">>
    /\ last_characters_read = <<EMPTY, EMPTY>>
    /\ log = <<"is_open", "open", "write", "read">>

----------------------------------------------------------------------------
\* Properties of _last_read_message_from_device

\* what _last_read_message_from_device does with the text the loop has read
Outcome == _last_read_message_from_device(_terminator, result_string)

\* C34: in _last_read_message_from_device the outcome 'Unable to find
\* termination characters in result' is unreachable: a call returns the
\* text the pattern matched or raises the 'Unable to find a match' IOError.
C34_NoTerminatorErrorUnreachable ==
    /\ [](pc = "matched" =>
            /\ Outcome.args # NO_TERMINATOR
            /\ \/ /\ Outcome.raised = "none"
                  /\ _everything_but_terminator_regex(
                         _terminator, result_string) # {}
                  /\ Outcome.value =
                        Prefix(result_string,
                               SetMax(_everything_but_terminator_regex(
                                          _terminator, result_string)))
               \/ /\ Outcome.raised = "IOError"
                  /\ Outcome.args = NO_MATCH
                  /\ _everything_but_terminator_regex(
                         _terminator, result_string) = {})
    /\ [][Strip => /\ exc_val' = Outcome.raised
                   /\ result' = Outcome.value
                   /\ (exc_val' = "none") # (result' = NoValue)]_vars

C34_Witness ==
    /\ pc = "exit"
    /\ _terminator = <<CR, LF>>
    /\ Received = <<CR, LF>>
    /\ exc_val = "none"
    /\ result = <<>>

====
